---- MODULE Spec2Model ----
(***************************************************************************)
(* Hades Cheat Injector (hades_cheat.py): the Action hierarchy, the        *)
(* TextProcessor text channel and App.process_files / App.process_file.    *)
(*                                                                         *)
(* Text and bytes are both written as strings, one character per           *)
(* character or byte.  Files are ASCII plus the UTF-8 byte order mark:     *)
(* the three BOM bytes EF BB BF are written "<#>" and the character        *)
(* U+FEFF they decode to is written "~"; neither occurs in file content.   *)
(* Python floats are kept as exact decimals n / 10^k; the scale factors    *)
(* of the catalogs are powers of two, for which float arithmetic on short  *)
(* decimals is exact up to the shortest-repr printing that str() does.     *)
(* Text-mode open() decodes with a UTF-8 locale.                           *)
(***************************************************************************)
EXTENDS FiniteSets, Integers, Sequences, TLC

VARIABLES
    templates,  \* os.walk(template_dir): the template files, in walk order
    changes,    \* App.changes: macro name -> Action
    live,       \* live_dir: entry -> the destination file (exists, bytes)
    dirs,       \* entries whose destination directory exists
    handles,    \* entries whose destination file is open for writing
    pc,         \* position of the run
    fi,         \* number of template files done with
    tp,         \* the TextProcessor of the file being processed
    pos,        \* index into tp.data of the loop `for line in tp`
    stdout,     \* lines printed
    exc,        \* the exception that ended the run, or None
    written,    \* history: entry -> the texts passed to TextProcessor.write
    live_before \* history: live_dir as it was when the run began

vars ==
    <<templates, changes, live, dirs, handles, pc, fi, tp, pos, stdout, exc, written,
      live_before>>

None == "None"

(***************************************************************************)
(* Strings                                                                 *)
(***************************************************************************)

\* s[i-1:j], counting from 1
Sub(s, i, j) ==
    SubSeq(s, IF i < 1 THEN 1 ELSE i, IF j > Len(s) THEN Len(s) ELSE j)

\* s[i-1:i]
Ch(s, i) == Sub(s, i, i)

StartsWith(s, p) == Sub(s, 1, Len(p)) = p

From(s, i) == Sub(s, i, Len(s))

\* s[:-1]
DropLast(s) == Sub(s, 1, Len(s) - 1)

Contains(s, c) == \E i \in 1..Len(s) : Ch(s, i) = c

\* parts[lo] parts[lo+1] ... parts[hi]
RECURSIVE Cat(_, _, _)
Cat(parts, lo, hi) ==
    IF lo > hi THEN ""
    ELSE IF lo = hi THEN parts[lo]
    ELSE Cat(parts, lo, (lo + hi) \div 2) \o Cat(parts, (lo + hi) \div 2 + 1, hi)

\* The k-th smallest member of a set of numbers
Nth(S, k) == CHOOSE x \in S : Cardinality({y \in S : y <= x}) = k

(***************************************************************************)
(* Codecs and universal newlines                                           *)
(***************************************************************************)

BOM_UTF8 == "<#>"

U_FEFF == "~"

\* bytes.decode('utf-8'): the three BOM bytes are the character U+FEFF
utf8_decode(b) ==
    Cat([i \in 1..Len(b) |->
            IF Sub(b, i, i + 2) = BOM_UTF8 THEN U_FEFF
            ELSE IF (i > 1 /\ Sub(b, i - 1, i + 1) = BOM_UTF8)
                    \/ (i > 2 /\ Sub(b, i - 2, i) = BOM_UTF8) THEN ""
            ELSE Ch(b, i)],
        1, Len(b))

\* str.encode('utf-8')
utf8_encode(t) ==
    Cat([i \in 1..Len(t) |-> IF Ch(t, i) = U_FEFF THEN BOM_UTF8 ELSE Ch(t, i)], 1, Len(t))

\* str.encode(encoding): ascii cannot hold U+FEFF
encode(t, encoding) ==
    IF encoding = "utf-8" THEN [raised |-> None, bytes |-> utf8_encode(t)]
    ELSE IF Contains(t, U_FEFF) THEN [raised |-> "UnicodeEncodeError", bytes |-> ""]
    ELSE [raised |-> None, bytes |-> t]

\* bytes.decode(encoding) of the BOM
bom_decode(bom, encoding) == utf8_decode(bom)

\* The text-mode stream of open(filename): every "\r\n", "\r" and "\n"
\* reads as "\n".
translate_newlines(t) ==
    Cat([i \in 1..Len(t) |->
            IF Ch(t, i) = "\r" THEN "\n"
            ELSE IF Ch(t, i) = "\n" /\ Ch(t, i - 1) = "\r" THEN ""
            ELSE Ch(t, i)],
        1, Len(t))

\* df.newlines after the first readline(): the kinds of line ending seen in
\* the decoded chunk, which holds the whole of a file this small.
seen_newlines(t) ==
    {"\r\n" : i \in {i \in 1..Len(t) : Sub(t, i, i + 1) = "\r\n"}}
    \cup {"\r" : i \in {i \in 1..Len(t) : Ch(t, i) = "\r" /\ Ch(t, i + 1) # "\n"}}
    \cup {"\n" : i \in {i \in 1..Len(t) : Ch(t, i) = "\n" /\ Ch(t, i - 1) # "\r"}}

\* `for line in df`: the lines of the translated text, each with its "\n",
\* the last one without when the file does not end with a line ending.
readlines(t) ==
    LET ends == {i \in 1..Len(t) : Ch(t, i) = "\n"}
        n    == Cardinality(ends)
        full == [k \in 1..n |-> Sub(t, (IF k = 1 THEN 0 ELSE Nth(ends, k - 1)) + 1,
                                    Nth(ends, k))]
        rest == From(t, (IF n = 0 THEN 0 ELSE Nth(ends, n)) + 1)
    IN  IF rest = "" THEN full ELSE Append(full, rest)

(***************************************************************************)
(* Python values: int, float (an exact decimal n / 10^k) and str; Raise is *)
(* an exception leaving the call.                                          *)
(***************************************************************************)

PyInt(n) == [t |-> "int", n |-> n, k |-> 0, s |-> ""]

PyFloat(n, k) == [t |-> "float", n |-> n, k |-> k, s |-> ""]

PyStr(s) == [t |-> "str", n |-> 0, k |-> 0, s |-> s]

Raise(e) == [t |-> "raise", n |-> 0, k |-> 0, s |-> e]

RECURSIVE Pow10(_)
Pow10(k) == IF k = 0 THEN 1 ELSE 10 * Pow10(k - 1)

\* One float has one value: trailing zeros of the fraction carry nothing.
RECURSIVE Norm(_)
Norm(x) ==
    IF x.t = "float" /\ x.k > 0 /\ x.n % 10 = 0 THEN Norm(PyFloat(x.n \div 10, x.k - 1))
    ELSE x

\* a < b, for ints and floats
Less(a, b) == a.n * Pow10(b.k) < b.n * Pow10(a.k)

\* float * float
Mul(a, b) == Norm(PyFloat(a.n * b.n, a.k + b.k))

\* 1 / scale
Inverse(a) ==
    LET j == CHOOSE j \in 0..6 : (Pow10(j + a.k) % a.n = 0
                                  /\ \A i \in 0..(j - 1) : Pow10(i + a.k) % a.n # 0)
    IN  Norm(PyFloat(Pow10(j + a.k) \div a.n, j))

\* math.floor(x + 0.5)
floor_half(x) == PyInt((2 * x.n + Pow10(x.k)) \div (2 * Pow10(x.k)))

\* the integer nearest p / q (q > 0), the even one of two equally near
RoundDiv(p, q) ==
    LET f == p \div q
        r == p - f * q
    IN  IF 2 * r < q THEN f
        ELSE IF 2 * r > q THEN f + 1
        ELSE IF f % 2 = 0 THEN f ELSE f + 1

\* round(x, precision) of a float
round(x, precision) ==
    IF x.k <= precision THEN Norm(x)
    ELSE Norm(PyFloat(RoundDiv(x.n, Pow10(x.k - precision)), precision))

\* round((a - b) / steps, precision)
round_quotient(a, b, steps, precision) ==
    LET kk  == IF a.k > b.k THEN a.k ELSE b.k
        num == a.n * Pow10(kk - a.k) - b.n * Pow10(kk - b.k)
    IN  Norm(PyFloat(RoundDiv(num * Pow10(precision), steps * Pow10(kk)), precision))

Digits == {"0", "1", "2", "3", "4", "5", "6", "7", "8", "9"}

DigitVal(c) ==
    CASE c = "0" -> 0 [] c = "1" -> 1 [] c = "2" -> 2 [] c = "3" -> 3 [] c = "4" -> 4
      [] c = "5" -> 5 [] c = "6" -> 6 [] c = "7" -> 7 [] c = "8" -> 8 [] c = "9" -> 9

DigitChar(d) == Ch("0123456789", d + 1)

IsDigits(s) == \A i \in 1..Len(s) : Ch(s, i) \in Digits

RECURSIVE DigitsVal(_)
DigitsVal(s) ==
    IF s = "" THEN 0 ELSE 10 * DigitsVal(DropLast(s)) + DigitVal(Ch(s, Len(s)))

RECURSIVE NatStr(_)
NatStr(n) == IF n < 10 THEN DigitChar(n) ELSE NatStr(n \div 10) \o DigitChar(n % 10)

RECURSIVE Zeros(_)
Zeros(n) == IF n <= 0 THEN "" ELSE "0" \o Zeros(n - 1)

\* str.strip() of the blanks float() and int() allow around a number
RECURSIVE Strip(_)
Strip(s) ==
    IF s # "" /\ Ch(s, 1) = " " THEN Strip(From(s, 2))
    ELSE IF s # "" /\ Ch(s, Len(s)) = " " THEN Strip(DropLast(s))
    ELSE s

Sign(s) == IF s # "" /\ Ch(s, 1) = "-" THEN -1 ELSE 1

Unsigned(s) == IF s # "" /\ Ch(s, 1) \in {"-", "+"} THEN From(s, 2) ELSE s

\* int(text): an optional sign and decimal digits
int(text) ==
    LET u == Unsigned(Strip(text))
    IN  IF u # "" /\ IsDigits(u) THEN PyInt(Sign(Strip(text)) * DigitsVal(u))
        ELSE Raise("ValueError")

\* float(text): an optional sign, decimal digits and at most one point
float(text) ==
    LET u    == Unsigned(Strip(text))
        dots == {i \in 1..Len(u) : Ch(u, i) = "."}
        p    == IF dots = {} THEN Len(u) + 1 ELSE CHOOSE i \in dots : TRUE
        ip   == SubSeq(u, 1, p - 1)
        fp   == From(u, p + 1)
    IN  IF Cardinality(dots) <= 1 /\ IsDigits(ip) /\ IsDigits(fp) /\ Len(ip) + Len(fp) >= 1
        THEN Norm(PyFloat(Sign(Strip(text)) * DigitsVal(ip \o fp), Len(fp)))
        ELSE Raise("ValueError")

\* repr of a float in the range printed without an exponent, 1e-4 <= |x| < 1e16
float_str(x) ==
    LET a  == IF x.n < 0 THEN -x.n ELSE x.n
        d  == NatStr(a)
        dd == Zeros(x.k + 1 - Len(d)) \o d
        ip == SubSeq(dd, 1, Len(dd) - x.k)
        fp == From(dd, Len(dd) - x.k + 1)
    IN  (IF x.n < 0 THEN "-" ELSE "") \o ip \o "." \o (IF fp = "" THEN "0" ELSE fp)

\* str(value), as '{}'.format(value) gives it
str(v) ==
    CASE v.t = "str" -> v.s
      [] v.t = "int" -> (IF v.n < 0 THEN "-" ELSE "") \o NatStr(IF v.n < 0 THEN -v.n ELSE v.n)
      [] v.t = "float" -> float_str(Norm(v))

(***************************************************************************)
(* The Action classes                                                      *)
(***************************************************************************)

DEFAULT_PRECISION == 6

DEFAULT_STEPS == 30

GODMODE_PRECISION == 6

ActionDefault == [cls |-> "ActionDefault", use_default |-> TRUE]

ActionScaleInt(scale, inverse, use_default) ==
    [cls |-> "ActionScaleInt", use_default |-> use_default, inverse |-> inverse,
     scale |-> IF inverse THEN Inverse(scale) ELSE scale]

ActionScaleFloat(scale, inverse, precision, use_default) ==
    [cls |-> "ActionScaleFloat", use_default |-> use_default, inverse |-> inverse,
     scale |-> IF inverse THEN Inverse(scale) ELSE scale, precision |-> precision]

ActionHardcode(val, use_default) ==
    [cls |-> "ActionHardcode", use_default |-> use_default, val |-> val]

ActionGodMode(start_pct, end_pct, steps, use_default) ==
    [cls |-> "ActionGodMode", use_default |-> use_default,
     start_pct |-> start_pct, end_pct |-> end_pct, steps |-> steps]

ActionFishingChance(min_chance, min_rooms, use_default) ==
    [cls |-> "ActionFishingChance", use_default |-> use_default,
     min_chance |-> min_chance, min_rooms |-> min_rooms]

ActionDefault_process(self, name, default) == PyStr(default)

ActionScaleInt_process(self, name, default) ==
    LET f == float(default)
    IN  IF f.t = "raise" THEN f ELSE floor_half(Mul(f, self.scale))

ActionScaleFloat_process(self, name, default) ==
    LET f == float(default)
    IN  IF f.t = "raise" THEN f ELSE round(Mul(f, self.scale), self.precision)

ActionHardcode_process(self, name, default) == self.val

\* ActionGodMode._process, were `case _` to return the default
ActionGodMode_process_lenient(self, name, default) ==
    CASE name = "godmode_base_scale" -> self.start_pct
      [] name = "godmode_per_death" ->
            round_quotient(self.end_pct, self.start_pct, self.steps, GODMODE_PRECISION)
      [] name = "godmode_death_cap" -> PyInt(self.steps)
      [] OTHER -> PyStr(default)

ActionGodMode_process(self, name, default) ==
    CASE name = "godmode_base_scale" -> self.start_pct
      [] name = "godmode_per_death" ->
            round_quotient(self.end_pct, self.start_pct, self.steps, GODMODE_PRECISION)
      [] name = "godmode_death_cap" -> PyInt(self.steps)
      [] OTHER -> Raise("RuntimeError: Unknown GodMode macro name")

\* max(a, b) and min(a, b): the first argument unless the second is better
max(a, b) == IF Less(a, b) THEN b ELSE a

min(a, b) == IF Less(b, a) THEN b ELSE a

\* ActionFishingChance._process with max and min the wrong way round
ActionFishingChance_process_swapped(self, name, default) ==
    CASE name = "fishing_chance" ->
            (LET f == float(default)
             IN  IF f.t = "raise" THEN f ELSE min(f, self.min_chance))
      [] name = "fishing_room_space" ->
            (LET i == int(default)
             IN  IF i.t = "raise" THEN i ELSE max(i, self.min_rooms))
      [] OTHER -> Raise("RuntimeError: Unknown Fishing macro name")

ActionFishingChance_process(self, name, default) ==
    CASE name = "fishing_chance" ->
            (LET f == float(default)
             IN  IF f.t = "raise" THEN f ELSE max(f, self.min_chance))
      [] name = "fishing_room_space" ->
            (LET i == int(default)
             IN  IF i.t = "raise" THEN i ELSE min(i, self.min_rooms))
      [] OTHER -> Raise("RuntimeError: Unknown Fishing macro name")

\* Action._process, by the class of self
_process(self, name, default) ==
    CASE self.cls = "ActionDefault" -> ActionDefault_process(self, name, default)
      [] self.cls = "ActionScaleInt" -> ActionScaleInt_process(self, name, default)
      [] self.cls = "ActionScaleFloat" -> ActionScaleFloat_process(self, name, default)
      [] self.cls = "ActionHardcode" -> ActionHardcode_process(self, name, default)
      [] self.cls = "ActionGodMode" -> ActionGodMode_process(self, name, default)
      [] self.cls = "ActionFishingChance" -> ActionFishingChance_process(self, name, default)

\* Action.process, were use_default not looked at
process_always(self, name, default) == _process(self, name, default)

\* Action.process
process(self, name, default) ==
    IF self.use_default THEN PyStr(default) ELSE _process(self, name, default)

(***************************************************************************)
(* App.macro_re                                                            *)
(***************************************************************************)

Lower == {"a", "b", "c", "d", "e", "f", "g", "h", "i", "j", "k", "l", "m", "n",
          "o", "p", "q", "r", "s", "t", "u", "v", "w", "x", "y", "z", "_"}

NoMatch == [matched |-> FALSE, start |-> "", name |-> "", default |-> "", end |-> ""]

\* [a-z_]+ from index i, greedy: the index after the last character it takes
name_end(line, i) ==
    CHOOSE e \in i..(Len(line) + 1) :
        /\ Ch(line, e) \notin Lower
        /\ \A j \in i..(e - 1) : Ch(line, j) \in Lower

\* .*?@ from index i, lazy: the index of the first "@" at or after i, 0 if none
default_end(line, i) ==
    LET ats == {j \in i..Len(line) : Ch(line, j) = "@"}
    IN  IF ats = {} THEN 0 ELSE CHOOSE c \in ats : \A j \in ats : c <= j

\* The groups of the attempt with `start` of length k, if it succeeds.  A
\* name shorter than the greedy one is followed by a name character, never
\* by "|", so the greedy name is the only one to try.
match_at(line, k) ==
    LET e == name_end(line, k + 2)
        c == default_end(line, e + 1)
    IN  IF /\ Ch(line, k + 1) = "@"
           /\ e > k + 2
           /\ Ch(line, e) = "|"
           /\ c # 0
        THEN [matched |-> TRUE,
              start   |-> Sub(line, 1, k),
              name    |-> Sub(line, k + 2, e - 1),
              default |-> Sub(line, e + 1, c - 1),
              end     |-> From(line, c + 1)]
        ELSE NoMatch

\* The attempts, were `start` lazy (.*?): the shortest one is the match
match_from_lazy(line, k) ==
    LET ok == {j \in 0..k : match_at(line, j).matched}
    IN  IF ok = {} THEN NoMatch
        ELSE match_at(line, CHOOSE j \in ok : \A i \in ok : j <= i)

\* The attempts with `start` of length k and shorter: `start` is greedy, so
\* the longest one that lets the rest match is the match.
match_from(line, k) ==
    LET ok == {j \in 0..k : match_at(line, j).matched}
    IN  IF ok = {} THEN NoMatch
        ELSE match_at(line, CHOOSE j \in ok : \A i \in ok : i <= j)

\* macro_re.match(line), for a line that holds no "\n"
macro_re_match(line) == match_from(line, Len(line) - 1)

(***************************************************************************)
(* TextProcessor                                                           *)
(***************************************************************************)

CONFIDENCE_MIN == 90

\* no TextProcessor yet
NoTP == [odf |-> None, data |-> <<>>]

\* chardet.detect(df.read(1024)): the detector's answer comes with the file
\* (encoding label, confidence in hundredths)
chardet_detect(f) == f.detect

\* line[n:-1]
strip_line(line, n) == Sub(line, n + 1, Len(line) - 1)

\* The loop over df that fills self.data
read_data(lines, bom, encoding) ==
    [j \in 1..Len(lines) |->
        IF j = 1 /\ bom # None
        THEN strip_line(lines[j], Len(bom_decode(bom, encoding)))
        ELSE strip_line(lines[j], 0)]

\* TextProcessor.__init__, were the confidence not looked at
TextProcessor_init_unchecked(f, filename_new) ==
    LET results  == chardet_detect(f)
        encoding == IF results.encoding = "UTF-8-SIG" THEN "utf-8" ELSE "ascii"
        bom      == IF results.encoding = "UTF-8-SIG" THEN BOM_UTF8 ELSE None
        text     == utf8_decode(f.bytes)
        newlines == seen_newlines(text)
    IN  IF results.encoding \notin {"UTF-8-SIG", "ascii"}
        THEN [raised |-> "RuntimeError: Unknown encoding", self |-> NoTP]
        ELSE IF newlines = {}
        THEN [raised |-> "RuntimeError: Unknown line endings", self |-> NoTP]
        ELSE IF Cardinality(newlines) > 1
        THEN [raised |-> "AttributeError", self |-> NoTP]
        ELSE [raised |-> None,
              self |-> [filename_new  |-> filename_new,
                        written_line  |-> FALSE,
                        orig_encoding |-> results.encoding,
                        encoding      |-> encoding,
                        bom           |-> bom,
                        newline       |-> encode(CHOOSE n \in newlines : TRUE, encoding).bytes,
                        data          |-> read_data(readlines(translate_newlines(text)),
                                                    bom, encoding),
                        odf           |-> None]]

\* TextProcessor.__init__: the object, or the exception it raises
TextProcessor_init(f, filename_new) ==
    LET results  == chardet_detect(f)
        encoding == IF results.encoding = "UTF-8-SIG" THEN "utf-8" ELSE "ascii"
        bom      == IF results.encoding = "UTF-8-SIG" THEN BOM_UTF8 ELSE None
        text     == utf8_decode(f.bytes)
        newlines == seen_newlines(text)
    IN  IF results.confidence < CONFIDENCE_MIN
        THEN [raised |-> "RuntimeError: Character detection not confident enough",
              self |-> NoTP]
        ELSE IF results.encoding \notin {"UTF-8-SIG", "ascii"}
        THEN [raised |-> "RuntimeError: Unknown encoding", self |-> NoTP]
        ELSE IF newlines = {}
        THEN [raised |-> "RuntimeError: Unknown line endings", self |-> NoTP]
        ELSE IF Cardinality(newlines) > 1
        THEN \* df.newlines is a tuple, which has no encode()
             [raised |-> "AttributeError", self |-> NoTP]
        ELSE [raised |-> None,
              self |-> [filename_new  |-> filename_new,
                        written_line  |-> FALSE,
                        orig_encoding |-> results.encoding,
                        encoding      |-> encoding,
                        bom           |-> bom,
                        newline       |-> encode(CHOOSE n \in newlines : TRUE, encoding).bytes,
                        data          |-> read_data(readlines(translate_newlines(text)),
                                                    bom, encoding),
                        odf           |-> None]]

\* TextProcessor.write, were the newline written after every line
TextProcessor_write_after(self, bytes, text) ==
    LET encoded == encode(text, self.encoding)
    IN  IF encoded.raised # None
        THEN [raised |-> encoded.raised, bytes |-> bytes, written_line |-> self.written_line]
        ELSE [raised |-> None, bytes |-> bytes \o encoded.bytes \o self.newline,
              written_line |-> TRUE]

\* TextProcessor.write on the bytes of the open file: the bytes after it,
\* self.written_line after it, and the exception it raises, if any
TextProcessor_write(self, bytes, text) ==
    LET sep     == IF self.written_line THEN bytes \o self.newline ELSE bytes
        encoded == encode(text, self.encoding)
    IN  IF encoded.raised # None
        THEN [raised |-> encoded.raised, bytes |-> sep, written_line |-> self.written_line]
        ELSE [raised |-> None, bytes |-> sep \o encoded.bytes, written_line |-> TRUE]

(***************************************************************************)
(* App                                                                     *)
(***************************************************************************)

default_action == ActionDefault

\* The Action for a macro name, were a missing name looked up all the same:
\* the KeyError stands for itself as an Action that raises
action_for_strict(catalog, name) ==
    IF name \in DOMAIN catalog THEN catalog[name]
    ELSE ActionGodMode(PyInt(0), PyInt(0), DEFAULT_STEPS, FALSE)

\* `if name in self.changes` ... `else`: the Action for a macro name
action_for(catalog, name) ==
    IF name \in DOMAIN catalog THEN catalog[name] ELSE default_action

\* the entry process_file is working on
cur == fi + 1

Warning(name) == " - WARNING: Change key not found, using default: " \o name

\* process_file, were the exception of the constructor caught and the file
\* skipped
process_file_skipping ==
    /\ pc = "walk"
    /\ fi < Len(templates)
    /\ stdout' = Append(stdout, "Processing")
    /\ dirs' = dirs \cup {cur}
    /\ LET r == TextProcessor_init(templates[cur], cur)
       IN  /\ tp' = r.self
           /\ exc' = r.raised
           /\ pc' = IF r.raised # None THEN "walk" ELSE "enter"
           /\ fi' = IF r.raised # None THEN fi + 1 ELSE fi
    /\ pos' = 0
    /\ UNCHANGED <<live_before, templates, changes, live, handles, written>>

\* process_file up to the construction of the TextProcessor: an exception
\* of the constructor leaves the program, nothing catches it
process_file ==
    /\ pc = "walk"
    /\ fi < Len(templates)
    /\ stdout' = Append(stdout, "Processing")
    /\ dirs' = dirs \cup {cur}
    /\ LET r == TextProcessor_init(templates[cur], cur)
       IN  /\ tp' = r.self
           /\ exc' = r.raised
           /\ pc' = IF r.raised # None THEN "aborted" ELSE "enter"
    /\ pos' = 0
    /\ UNCHANGED <<live_before, templates, changes, live, handles, fi, written>>

\* TextProcessor.__enter__, were the output opened with mode 'xb': a file at
\* the destination makes open() raise, before the `with` block is entered
TextProcessor_enter_exclusive ==
    /\ pc = "enter"
    /\ IF live[tp.filename_new].exists
       THEN /\ exc' = "FileExistsError"
            /\ pc' = "aborted"
            /\ UNCHANGED <<live, handles, tp, pos>>
       ELSE /\ handles' = handles \cup {tp.filename_new}
            /\ live' = [live EXCEPT ![tp.filename_new] =
                           [exists |-> TRUE, bytes |-> IF tp.bom # None THEN tp.bom ELSE ""]]
            /\ tp' = [tp EXCEPT !.odf = tp.filename_new]
            /\ pos' = 1
            /\ pc' = "loop"
            /\ exc' = exc
    /\ UNCHANGED <<live_before, templates, changes, dirs, fi, stdout, written>>

\* TextProcessor.__enter__: open(filename_new, 'wb') creates the file or
\* empties the one that is there
TextProcessor_enter ==
    /\ pc = "enter"
    /\ handles' = handles \cup {tp.filename_new}
    /\ live' = [live EXCEPT ![tp.filename_new] =
                   [exists |-> TRUE, bytes |-> IF tp.bom # None THEN tp.bom ELSE ""]]
    /\ tp' = [tp EXCEPT !.odf = tp.filename_new]
    /\ pos' = 1
    /\ pc' = "loop"
    /\ UNCHANGED <<live_before, templates, changes, dirs, fi, stdout, exc, written>>

\* One turn of `for line in tp`
process_line ==
    /\ pc = "loop"
    /\ pos <= Len(tp.data)
    /\ LET line   == tp.data[pos]
           match  == macro_re_match(line)
           known  == match.name \in DOMAIN changes
           action == action_for(changes, match.name)
           value  == process(action, match.name, match.default)
           text   == IF match.matched THEN match.start \o str(value) \o match.end ELSE line
       IN  /\ stdout' = IF match.matched /\ ~known
                        THEN Append(stdout, Warning(match.name)) ELSE stdout
           /\ IF match.matched /\ value.t = "raise"
              THEN /\ exc' = value.s
                   /\ pc' = "unwind"
                   /\ UNCHANGED <<live, tp, pos, written>>
              ELSE LET w == TextProcessor_write(tp, live[tp.odf].bytes, text)
                   IN  /\ written' = [written EXCEPT ![tp.odf] = Append(@, text)]
                       /\ live' = [live EXCEPT ![tp.odf].bytes = w.bytes]
                       /\ tp' = [tp EXCEPT !.written_line = w.written_line]
                       /\ exc' = w.raised
                       /\ pc' = IF w.raised # None THEN "unwind" ELSE "loop"
                       /\ pos' = IF w.raised # None THEN pos ELSE pos + 1
    /\ UNCHANGED <<live_before, templates, changes, dirs, handles, fi>>

\* The end of the loop without the `with`: close() is reached only when no
\* exception is on its way
TextProcessor_exit_unscoped ==
    /\ \/ pc = "loop" /\ pos > Len(tp.data)
       \/ pc = "unwind"
    /\ handles' = IF pc = "unwind" THEN handles ELSE handles \ {tp.odf}
    /\ pc' = IF pc = "unwind" THEN "aborted" ELSE "walk"
    /\ fi' = IF pc = "unwind" THEN fi ELSE fi + 1
    /\ UNCHANGED <<live_before, templates, changes, live, dirs, tp, pos, stdout, exc, written>>

\* TextProcessor.__exit__, at the end of the loop or with an exception on
\* its way out of the `with`
TextProcessor_exit ==
    /\ \/ pc = "loop" /\ pos > Len(tp.data)
       \/ pc = "unwind"
    /\ handles' = handles \ {tp.odf}
    /\ pc' = IF pc = "unwind" THEN "aborted" ELSE "walk"
    /\ fi' = IF pc = "unwind" THEN fi ELSE fi + 1
    /\ UNCHANGED <<live_before, templates, changes, live, dirs, tp, pos, stdout, exc, written>>

\* process_files returns: the walk is over
process_files_return ==
    /\ pc = "walk"
    /\ fi = Len(templates)
    /\ pc' = "done"
    /\ UNCHANGED <<live_before, templates, changes, live, dirs, handles, fi, tp, pos, stdout, exc, written>>

Next ==
    \/ process_file
    \/ TextProcessor_enter
    \/ process_line
    \/ TextProcessor_exit
    \/ process_files_return

(***************************************************************************)
(* main(): the catalogs.  changes_main is main()'s dict, less the entries  *)
(* that repeat a kind of Action already there or scale by a factor that    *)
(* is no power of two.                                                     *)
(***************************************************************************)

changes_main(godmode, fishing) ==
    [name \in {"well_darkness_cost_scale", "shop_cost_scale", "base_health",
               "fishing_perfect_interval", "keepsake_activations",
               "fishing_chance", "fishing_room_space",
               "godmode_base_scale", "godmode_per_death", "godmode_death_cap"} |->
        CASE name = "well_darkness_cost_scale" ->
                ActionScaleFloat(PyInt(4), TRUE, DEFAULT_PRECISION, FALSE)
          [] name = "shop_cost_scale" -> ActionScaleInt(PyFloat(5, 1), FALSE, FALSE)
          [] name = "base_health" -> ActionHardcode(PyInt(100), TRUE)
          [] name = "fishing_perfect_interval" -> ActionHardcode(PyFloat(64, 2), FALSE)
          [] name = "keepsake_activations" -> ActionHardcode(PyStr("2, 2"), FALSE)
          [] name \in {"fishing_chance", "fishing_room_space"} -> fishing
          [] OTHER -> godmode]

\* A catalog that binds the two shared Actions to names they do not handle
changes_miswired(godmode, fishing) ==
    [changes_main(godmode, fishing) EXCEPT !["godmode_death_cap"] = fishing,
                                           !["fishing_room_space"] = godmode]

\* The same catalog with every Action constructed with use_default = True
with_use_default(catalog) ==
    [name \in DOMAIN catalog |-> [catalog[name] EXCEPT !.use_default = TRUE]]

\* main(): ActionGodMode(0.6, 0) and ActionFishingChance(min_chance=1, min_rooms=1)
godmode_main == ActionGodMode(PyFloat(6, 1), PyInt(0), DEFAULT_STEPS, FALSE)

fishing_main == ActionFishingChance(PyInt(1), PyInt(1), FALSE)

\* The game's own values (0.8 to 0.2) and the docstring's example (0.2, 5)
godmode_alt == ActionGodMode(PyFloat(8, 1), PyFloat(2, 1), DEFAULT_STEPS, FALSE)

fishing_alt == ActionFishingChance(PyFloat(2, 1), PyInt(5), FALSE)

Catalogs ==
    {changes_main(godmode_main, fishing_main),
     changes_main(godmode_alt, fishing_alt),
     changes_miswired(godmode_main, fishing_main),
     with_use_default(changes_main(godmode_main, fishing_main)),
     with_use_default(changes_miswired(godmode_alt, fishing_alt))}

(***************************************************************************)
(* The template trees of the runs checked                                  *)
(***************************************************************************)

MaxFiles == 2

MaxLines == 3

MaxPieces == 7

Newlines == {"\n", "\r\n"}

RECURSIVE Join(_)
Join(parts) == IF parts = <<>> THEN "" ELSE Head(parts) \o Join(Tail(parts))

\* What the detector says of a file of ASCII bytes, with or without a BOM
Detected(bytes) ==
    IF StartsWith(bytes, BOM_UTF8) THEN [encoding |-> "UTF-8-SIG", confidence |-> 100]
    ELSE IF bytes = "" THEN [encoding |-> None, confidence |-> 0]
    ELSE [encoding |-> "ascii", confidence |-> 100]

File(bytes) == [bytes |-> bytes, detect |-> Detected(bytes)]

\* Files of another encoding: their bytes are never decoded
Undetected ==
    {[bytes |-> "x\n", detect |-> d] :
        d \in {[encoding |-> "UTF-16", confidence |-> 100],
               [encoding |-> "Windows-1252", confidence |-> 73],
               [encoding |-> "ascii", confidence |-> 89],
               [encoding |-> "utf-8", confidence |-> 99]}}

LineTexts == {"", "x", "A=@shop_cost_scale|40@;"}

\* The byte strings of up to n lines, each line ended, the last perhaps not
RECURSIVE Ended(_)
Ended(n) ==
    IF n = 0 THEN {""}
    ELSE LET P == Ended(n - 1)
         IN  P \cup {b \o l \o nl : b \in P, l \in LineTexts, nl \in Newlines}

Contents == Ended(MaxLines) \cup {b \o l : b \in Ended(MaxLines - 1), l \in LineTexts}

ShapeFiles == {File(bom \o b) : bom \in {"", BOM_UTF8}, b \in Contents} \cup Undetected

\* One macro on a line, all combinations of name and default
MacroNames ==
    {"well_darkness_cost_scale", "shop_cost_scale", "base_health",
     "fishing_perfect_interval", "keepsake_activations",
     "fishing_chance", "fishing_room_space",
     "godmode_base_scale", "godmode_per_death", "godmode_death_cap", "unknown_macro"}

Defaults == {"40", "10", "1", "7", "-3", "0.1", "0.35", "2.5", "25, 50", "", "abc"}

MacroLines ==
    {fix[1] \o "@" \o name \o "|" \o default \o "@" \o fix[2] :
        fix \in {<<"", "">>, <<"Chance=", ";">>}, name \in MacroNames, default \in Defaults}

MacroFiles == {File(line \o "\n") : line \in MacroLines}

\* Every line of up to n pieces: the characters the pattern treats apart
\* ("@", "|", a name character), and with a character that is none of them
\* on the shorter lines
Pieces == {"@", "|", "n"}

RECURSIVE PieceLines(_, _)
PieceLines(P, n) ==
    IF n = 0 THEN {""}
    ELSE LET S == PieceLines(P, n - 1) IN S \cup {l \o c : l \in S, c \in P}

PieceFiles ==
    {File(line \o "\n") :
        line \in PieceLines(Pieces, MaxPieces) \cup PieceLines(Pieces \cup {"4"}, MaxPieces - 2)}

\* Trees of several files: a good file of each encoding, files that fail in
\* the constructor and files that fail at a line
TreeFiles ==
    {File(BOM_UTF8 \o "A=@shop_cost_scale|40@;\r\nx\r\n"),
     File("x\n@unknown_macro|7@\ny"),
     File("x"),
     File("x\n@shop_cost_scale|abc@\ny\n"),
     File("x\n@godmode_death_cap|1@\n"),
     [bytes |-> "x\n", detect |-> [encoding |-> "UTF-16", confidence |-> 100]]}

RECURSIVE Trees(_)
Trees(n) ==
    IF n = 0 THEN {<<>>}
    ELSE LET P == Trees(n - 1) IN P \cup {Append(t, f) : t \in P, f \in TreeFiles}

\* A run: the tree, the catalog and the entries whose destination exists
Runs ==
    {[templates |-> <<f>>, changes |-> changes_main(godmode_main, fishing_main), existing |-> e] :
        f \in ShapeFiles, e \in SUBSET {1}}
    \cup {[templates |-> <<f>>, changes |-> c, existing |-> {}] : f \in MacroFiles, c \in Catalogs}
    \cup {[templates |-> <<f>>, changes |-> changes_main(godmode_main, fishing_main),
           existing |-> {}] : f \in PieceFiles}
    \cup {[templates |-> t, changes |-> c, existing |-> e] :
            t \in Trees(MaxFiles),
            c \in {changes_main(godmode_main, fishing_main),
                   changes_miswired(godmode_main, fishing_main)},
            e \in SUBSET (1..MaxFiles)}

OldBytes == "old"

Init ==
    \E run \in Runs :
        /\ templates = run.templates
        /\ changes = run.changes
        /\ live = [i \in 1..Len(run.templates) |->
                      IF i \in run.existing THEN [exists |-> TRUE, bytes |-> OldBytes]
                      ELSE [exists |-> FALSE, bytes |-> ""]]
        /\ dirs = run.existing \cap (1..Len(run.templates))
        /\ handles = {}
        /\ pc = "walk"
        /\ fi = 0
        /\ tp = NoTP
        /\ pos = 0
        /\ stdout = <<>>
        /\ exc = None
        /\ written = [i \in 1..Len(run.templates) |-> <<>>]
        /\ live_before = live

Spec == Init /\ [][Next]_vars

(***************************************************************************)
(* What the properties below say of a source file, read off its bytes      *)
(***************************************************************************)

HasBOM(f) == f.detect.encoding = "UTF-8-SIG"

EndsWith(s, p) == Len(s) >= Len(p) /\ Sub(s, Len(s) - Len(p) + 1, Len(s)) = p

\* The number of places at which p occurs in s
Count(s, p) == Cardinality({i \in 1..Len(s) : Sub(s, i, i + Len(p) - 1) = p})

\* The line ending the source uses
SourceNewline(f) == IF Count(f.bytes, "\r\n") > 0 THEN "\r\n" ELSE "\n"

\* The source after its BOM
Body(f) == IF HasBOM(f) THEN From(f.bytes, Len(BOM_UTF8) + 1) ELSE f.bytes

\* The contents of the lines of b: what stands between line endings, and
\* after the last one when the file does not end with one
RECURSIVE Split(_, _, _)
Split(b, nl, from) ==
    LET ends == {i \in from..Len(b) : Sub(b, i, i + Len(nl) - 1) = nl}
        e    == CHOOSE i \in ends : \A j \in ends : i <= j
    IN  IF ends = {} THEN (IF from > Len(b) THEN <<>> ELSE <<From(b, from)>>)
        ELSE <<Sub(b, from, e - 1)>> \o Split(b, nl, e + Len(nl))

SourceLines(f) == Split(Body(f), SourceNewline(f), 1)

\* The source is one the program supports
DetectionFails(f) ==
    \/ f.detect.encoding \notin {"UTF-8-SIG", "ascii"}
    \/ f.detect.confidence < CONFIDENCE_MIN
    \/ \A i \in 1..Len(f.bytes) : Ch(f.bytes, i) \notin {"\r", "\n"}

\* lines[1] nl lines[2] nl ... lines[n]
RECURSIVE Joined(_, _)
Joined(lines, nl) ==
    IF lines = <<>> THEN ""
    ELSE IF Len(lines) = 1 THEN lines[1]
    ELSE lines[1] \o nl \o Joined(Tail(lines), nl)

\* The entries processed to the end without error
Finished == 1..fi

(***************************************************************************)
(* C1 (as amended): the output of every file processed without error is    *)
(* the BOM bytes, if and only if the source has the BOM, then the written  *)
(* lines in source order with the source's line ending between them: one   *)
(* line per source line, n - 1 line endings for n lines, the BOM only at   *)
(* offset 0, and nothing after the last line, so that the output ends with *)
(* a line ending only when the last written line is empty.                 *)
(***************************************************************************)
C1_Layout(i) ==
    LET f   == templates[i]
        out == live[i].bytes
        nl  == SourceNewline(f)
        n   == Len(written[i])
    IN  /\ live[i].exists
        /\ out = (IF HasBOM(f) THEN BOM_UTF8 ELSE "") \o Joined(written[i], nl)
        /\ n = Len(SourceLines(f))
        /\ n >= 1
        /\ Count(out, nl) = n - 1
        /\ Count(out, BOM_UTF8) = (IF HasBOM(f) THEN 1 ELSE 0)
        /\ HasBOM(f) => StartsWith(out, BOM_UTF8)

C2_RoundTrip ==
    \A i \in Finished :
        \A j \in 1..Len(SourceLines(templates[i])) :
            ~macro_re_match(SourceLines(templates[i])[j]).matched
                => /\ j <= Len(written[i])
                   /\ written[i][j] = SourceLines(templates[i])[j]

(***************************************************************************)
(* C3: a macro name with no entry in the catalog gets a warning, its line  *)
(* is written as start + default + end, and the loop goes on with no       *)
(* exception.                                                              *)
(***************************************************************************)
AtLine == pc = "loop" /\ pos <= Len(tp.data)

Line == tp.data[pos]

\* The line just written to the current entry is text
Wrote(text) ==
    /\ written' = [written EXCEPT ![cur] = Append(@, text)]
    /\ live'[cur].bytes =
          live[cur].bytes \o (IF written[cur] = <<>> THEN "" ELSE tp.newline) \o text

C3_MissingMapping ==
    [][(AtLine /\ macro_re_match(Line).matched
               /\ macro_re_match(Line).name \notin DOMAIN changes)
        => LET m == macro_re_match(Line)
           IN  /\ stdout' = Append(stdout, Warning(m.name))
               /\ Wrote(m.start \o m.default \o m.end)
               /\ pc' = "loop"
               /\ pos' = pos + 1
               /\ exc' = None]_vars

\* A run that met an unknown macro name, went on and ended well
C3_Witness ==
    /\ pc = "done"
    /\ exc = None
    /\ Len(templates) = 2
    /\ stdout = <<"Processing", Warning("unknown_macro"), "Processing">>
    /\ live[1].bytes = "x\n7\n"

(***************************************************************************)
(* C4: a source whose encoding is not supported, whose detection is not    *)
(* confident or whose line ending cannot be told aborts the run, and its   *)
(* destination is never created, opened or written.                        *)
(***************************************************************************)
C4_DetectionAborts ==
    [][\A i \in 1..Len(templates) :
          DetectionFails(templates[i])
            => /\ live'[i] = live[i]
               /\ i \notin handles'
               /\ (pc = "walk" /\ cur = i) => (pc' = "aborted" /\ exc' # None)]_vars

\* The run aborted at such a source, whose destination still holds what it held
C4_Witness ==
    /\ pc = "aborted"
    /\ cur = 2
    /\ templates[2].detect.encoding = "UTF-16"
    /\ live[2] = [exists |-> TRUE, bytes |-> OldBytes]
    /\ live[1].exists

(***************************************************************************)
(* C5: when the processing of a file has ended, by the end of its lines or *)
(* by an exception at a line, its output handle is closed: no handle is    *)
(* open between files, when the next file begins, or when the run is over. *)
(***************************************************************************)
C5_HandleClosed ==
    pc \in {"walk", "enter", "done", "aborted"} => handles = {}

\* The run ended by an exception at a line, after the output was opened
C5_Witness ==
    /\ pc = "aborted"
    /\ exc = "ValueError"
    /\ tp.odf = cur
    /\ written[cur] # <<>>
    /\ handles = {}

(***************************************************************************)
(* C6 (as amended): an ActionGodMode or ActionFishingChance constructed    *)
(* without use_default and applied to a macro name it does not handle      *)
(* raises a RuntimeError; no line is written for that macro, nothing       *)
(* catches the exception and the run ends.                                 *)
(***************************************************************************)
GodModeNames == {"godmode_base_scale", "godmode_per_death", "godmode_death_cap"}

FishingNames == {"fishing_chance", "fishing_room_space"}

\* The line at hand applies an Action of class cls to a name outside names
Misapplied(cls, names) ==
    /\ AtLine
    /\ macro_re_match(Line).matched
    /\ macro_re_match(Line).name \in DOMAIN changes
    /\ changes[macro_re_match(Line).name].cls = cls
    /\ macro_re_match(Line).name \notin names

Raised(e) ==
    /\ exc' = e
    /\ pc' = "unwind"
    /\ written' = written
    /\ live' = live

Uncaught == pc = "unwind" => (pc' = "aborted" /\ exc' = exc /\ live' = live)

C6_ConfigurationErrorEnabled ==
    [][/\ (Misapplied("ActionGodMode", GodModeNames)
              /\ ~changes[macro_re_match(Line).name].use_default)
            => Raised("RuntimeError: Unknown GodMode macro name")
       /\ (Misapplied("ActionFishingChance", FishingNames)
              /\ ~changes[macro_re_match(Line).name].use_default)
            => Raised("RuntimeError: Unknown Fishing macro name")
       /\ Uncaught]_vars

\* C6 as stated: of every such Action, with use_default or without
C6_ConfigurationError ==
    [][/\ Misapplied("ActionGodMode", GodModeNames)
            => Raised("RuntimeError: Unknown GodMode macro name")
       /\ Misapplied("ActionFishingChance", FishingNames)
            => Raised("RuntimeError: Unknown Fishing macro name")
       /\ Uncaught]_vars

\* The run ended by the error of a ActionFishingChance bound to a God Mode name
C6_Witness ==
    /\ pc = "aborted"
    /\ exc = "RuntimeError: Unknown Fishing macro name"
    /\ changes["godmode_death_cap"].cls = "ActionFishingChance"
    /\ templates[cur].bytes = "x\n@godmode_death_cap|1@\n"
    /\ live[cur].bytes = "x"

(***************************************************************************)
(* C7: an Action of any class constructed with use_default returns the     *)
(* default text of every macro, whatever its name: the line is written as  *)
(* start + default + end, and the catalog stays as it was.                 *)
(***************************************************************************)
C7_Disabled ==
    [][/\ (AtLine /\ macro_re_match(Line).matched
                  /\ macro_re_match(Line).name \in DOMAIN changes
                  /\ changes[macro_re_match(Line).name].use_default)
            => LET m == macro_re_match(Line)
               IN  /\ Wrote(m.start \o m.default \o m.end)
                   /\ exc' = None
                   /\ pc' = "loop"
       /\ changes' = changes]_vars

\* A disabled ActionFishingChance, bound to a name it does not handle, has
\* passed on a default that is no number
C7_Witness ==
    /\ pc = "done"
    /\ Len(templates) = 1
    /\ templates[1].bytes = "Chance=@godmode_death_cap|abc@;\n"
    /\ changes["godmode_death_cap"].cls = "ActionFishingChance"
    /\ changes["godmode_death_cap"].use_default
    /\ live[1].bytes = "Chance=abc;"

(***************************************************************************)
(* C8 (as amended): an ActionFishingChance without use_default gives       *)
(* fishing_chance, for every default that is a decimal literal, the        *)
(* greater of the default and min_chance, hence a value >= both, and       *)
(* fishing_room_space, for every default that is an integer literal, the   *)
(* lesser of the default and min_rooms, hence a value <= both.             *)
(***************************************************************************)
Same(a, b) == ~Less(a, b) /\ ~Less(b, a)

\* The text just written for the line at hand, between its start and end
NewText == written'[cur][Len(written'[cur])]

Replacement(m) == Sub(NewText, Len(m.start) + 1, Len(NewText) - Len(m.end))

WroteAround(m) ==
    /\ Len(written'[cur]) = Len(written[cur]) + 1
    /\ StartsWith(NewText, m.start)
    /\ EndsWith(NewText, m.end)
    /\ Len(NewText) >= Len(m.start) + Len(m.end)

\* The line at hand applies an enabled ActionFishingChance to name
FishingAt(name) ==
    /\ AtLine
    /\ macro_re_match(Line).matched
    /\ macro_re_match(Line).name = name
    /\ name \in DOMAIN changes
    /\ changes[name].cls = "ActionFishingChance"
    /\ ~changes[name].use_default

C8_Chance ==
    (FishingAt("fishing_chance") /\ float(macro_re_match(Line).default).t # "raise")
        => LET m == macro_re_match(Line)
               d == float(m.default)
               r == float(Replacement(m))
               b == changes["fishing_chance"].min_chance
           IN  /\ WroteAround(m)
               /\ r.t # "raise"
               /\ ~Less(r, b)
               /\ ~Less(r, d)
               /\ Same(r, b) \/ Same(r, d)

\* readable(text): the defaults the claim is made of
C8_RoomSpace(readable(_)) ==
    (FishingAt("fishing_room_space") /\ readable(macro_re_match(Line).default).t # "raise")
        => LET m == macro_re_match(Line)
               d == float(m.default)
               r == float(Replacement(m))
               b == changes["fishing_room_space"].min_rooms
           IN  /\ WroteAround(m)
               /\ r.t # "raise"
               /\ ~Less(b, r)
               /\ ~Less(d, r)
               /\ Same(r, b) \/ Same(r, d)

C8_FloorClamp == [][C8_Chance /\ C8_RoomSpace(int)]_vars

\* C8 as stated: of every numeric default
C8_FloorClampNumeric == [][C8_Chance /\ C8_RoomSpace(float)]_vars

\* A default of 10 rooms was brought down to min_rooms = 5
C8_Witness ==
    /\ pc = "done"
    /\ Len(templates) = 1
    /\ templates[1].bytes = "Chance=@fishing_room_space|10@;\n"
    /\ changes["fishing_room_space"] = fishing_alt
    /\ live[1].bytes = "Chance=5;"

(***************************************************************************)
(* C9: of a line that holds a span @name|default@ (a non-empty name of     *)
(* lowercase letters and underscores, a default without "@"), the span     *)
(* that opens at the rightmost such "@" is the one replaced: the line is   *)
(* written as start + str(process(name, default)) + end, start being all   *)
(* that stands before that "@" and end all that stands after the closing   *)
(* "@".                                                                    *)
(***************************************************************************)
IsName(s) == s # "" /\ \A i \in 1..Len(s) : Ch(s, i) \in Lower

Ats(line) == {i \in 1..Len(line) : Ch(line, i) = "@"}

Bars(line) == {i \in 1..Len(line) : Ch(line, i) = "|"}

\* <<p, q, c>>: "@" at p, a name, "|" at q, a default without "@", "@" at c
Spans(line) ==
    {sp \in Ats(line) \X Bars(line) \X Ats(line) :
        /\ sp[1] < sp[2]
        /\ sp[2] < sp[3]
        /\ IsName(Sub(line, sp[1] + 1, sp[2] - 1))
        /\ \A i \in (sp[2] + 1)..(sp[3] - 1) : Ch(line, i) # "@"}

C9_SingleSubstitution ==
    [][(AtLine /\ Spans(Line) # {})
        => LET sp      == CHOOSE x \in Spans(Line) : \A y \in Spans(Line) : y[1] <= x[1]
               start   == Sub(Line, 1, sp[1] - 1)
               name    == Sub(Line, sp[1] + 1, sp[2] - 1)
               default == Sub(Line, sp[2] + 1, sp[3] - 1)
               end     == From(Line, sp[3] + 1)
               value   == process(action_for(changes, name), name, default)
           IN  IF value.t = "raise"
               THEN written' = written /\ pc' = "unwind"
               ELSE Wrote(start \o str(value) \o end)]_vars

\* Two spans on a line: the first one stays as it is, the second is replaced
C9_Witness ==
    /\ pc = "done"
    /\ Len(templates) = 1
    /\ templates[1].bytes = "@n|@n|@\n"
    /\ live[1].bytes = "@n|"

(***************************************************************************)
(* C10: the files are processed one at a time, and the run processes all   *)
(* of them or stops at the first exception.  An output is open only for    *)
(* the file at hand and only once its lines are all read, none is open     *)
(* when the next file is begun, and the files not begun are untouched; a   *)
(* run that is done has written every output in full; after an exception   *)
(* no file is begun, no output is created and no line is written.          *)
(***************************************************************************)
Untouched(i) ==
    /\ live[i] \in {[exists |-> FALSE, bytes |-> ""], [exists |-> TRUE, bytes |-> OldBytes]}
    /\ written[i] = <<>>

C10_OneAtATime ==
    /\ handles \subseteq {cur}
    /\ handles # {} => Len(tp.data) = Len(SourceLines(templates[cur]))
    /\ pc = "walk" => handles = {}
    /\ \A i \in 1..Len(templates) : (i > cur \/ (i = cur /\ pc = "walk")) => Untouched(i)
    /\ exc # None => pc \in {"unwind", "aborted"}
    /\ pc = "done" =>
          /\ exc = None
          /\ \A i \in 1..Len(templates) :
                /\ live[i].exists
                /\ i \in dirs
                /\ Len(written[i]) = Len(SourceLines(templates[i]))

C10_AfterException ==
    exc # None =>
        /\ exc' = exc
        /\ fi' = fi
        /\ live' = live
        /\ written' = written
        /\ dirs' = dirs
        /\ stdout' = stdout
        /\ handles' \subseteq handles

C10_Sequential == []C10_OneAtATime /\ [][C10_AfterException]_vars

\* The first file was written in full, the second one failed at its second
\* line, after its first was written
C10_Witness ==
    /\ pc = "aborted"
    /\ Len(templates) = 2
    /\ fi = 1
    /\ Len(written[1]) = 3
    /\ exc = "ValueError"
    /\ live[2].bytes = "x"

(***************************************************************************)
(* C11 (as amended): the output file for an entry is opened for binary     *)
(* writing, created if there is none and emptied if there is one: when a   *)
(* file already exists at the destination path, opening the output         *)
(* replaces its contents, so that right after the opening the file holds   *)
(* the BOM of the source or nothing, the opening raises no exception, and  *)
(* a finished entry holds what it would hold had there been no file.       *)
(***************************************************************************)
Opening == pc = "enter"

Fresh(i) == (IF HasBOM(templates[i]) THEN BOM_UTF8 ELSE "")

C11_Opened ==
    Opening =>
        /\ live'[cur] = [exists |-> TRUE, bytes |-> Fresh(cur)]
        /\ cur \in handles'
        /\ exc' = None
        /\ pc' = "loop"
        /\ \A i \in 1..Len(templates) : i # cur => live'[i] = live[i]

C11_Replaced ==
    \A i \in Finished :
        live[i].bytes = Fresh(i) \o Joined(written[i], SourceNewline(templates[i]))

C11_TruncatingCreate == []C11_Replaced /\ [][C11_Opened]_vars

\* C11 as stated: opening leaves a file that is already there as it is
C11_ExclusiveCreate ==
    [][(Opening /\ live[cur].exists) => live'[cur] = live[cur]]_vars

\* The destination held a file when the run began; the run is done and the
\* file holds the output and nothing of what it held
C11_Witness ==
    /\ pc = "done"
    /\ Len(templates) = 1
    /\ live_before[1] = [exists |-> TRUE, bytes |-> OldBytes]
    /\ templates[1].bytes = "x\nx\n"
    /\ live[1].bytes = "x\nx"

====
